---------------------------- MODULE Spec2Model ----------------------------
(***************************************************************************)
(* A model of the phpipam-sdk-go controllers (sections, addresses,         *)
(* subnets, vlans, l2domains): the wire (DTO) and domain records, the      *)
(* conversions between them, and every public operation as the requests    *)
(* it hands to the dispatcher and the result it returns.                   *)
(*                                                                         *)
(* One state is one finished call: the operation, its arguments, the       *)
(* requests it issued in order, the dispatcher's replies and the result.   *)
(* SpecConcurrent has several callers call one controller at once, a call  *)
(* advancing one request at a time.                                        *)
(***************************************************************************)
EXTENDS Integers, Sequences, FiniteSets, TLC

VARIABLES
    op,       \* name of the operation of the call, "idle" between calls
    args,     \* the call's arguments
    reqs,     \* the requests the call handed to the dispatcher, in order
    resps,    \* the dispatcher's reply to each of them
    visited,  \* UpdateVLANCustomFields: the keys its validation loop examined
    ret,      \* what the call returned
    ctrl,     \* the controller the calls are made on
    calls     \* concurrent callers: each one's call, step by step

vars == <<op, args, reqs, resps, visited, ret, ctrl, calls>>

---------------------------------------------------------------------------
(* Bounds of the model.                                                    *)

\* identifiers and numbers range over 0..MaxId
MaxId == 2
\* a decoded sequence of wire records holds at most MaxList records
MaxList == 2
\* a caller's custom-field update map holds at most MaxKeys keys
MaxKeys == 2
\* a record passed to or returned by an operation has at most this many
\* fields that differ from the zero value
MaxArgFields == 1
\* a record given to a conversion round trip has at most this many fields
\* that differ from the zero value
MaxRoundTripFields == 2
\* the integers given to the scalar encoding range over 0..MaxScalar
MaxScalar == 12
\* the callers that call the controller concurrently
NumCallers == 2

---------------------------------------------------------------------------
(* Values.                                                                 *)

Ids == 0..MaxId
Names == {"", "v10"}
Messages == {"", "ok"}

\* interface{} values of a map[string]interface{}: an int or a string
IntV(n) == [kind |-> "int", n |-> n, s |-> ""]
StrV(s) == [kind |-> "str", n |-> 0, s |-> s]
CallerVals == {StrV("A123"), IntV(7)}

\* custom-field names the server or a caller may use
Keys == {"asset_tag", "notes", "unknown_key", "id", "name"}

\* a Go map as the function from its keys to its values; a nil map and an
\* empty map both range over no key
EmptyMap == [k \in {} |-> StrV("")]
SomeMap == [k \in {"asset_tag"} |-> StrV("A123")]

\* &struct{}{}: the empty request body and the ignored destination
EmptyStruct == [struct |-> "{}"]

\* a slice: nil, or backed by an array holding elems
\* []T for the wire struct (KindDTO) or the domain struct (Kind) of a kind
DTOType(kind) == [kind |-> kind, dto |-> TRUE]
DomainType(kind) == [kind |-> kind, dto |-> FALSE]
NilSlice(of) == [isNil |-> TRUE, elems |-> <<>>, of |-> of]
Slice(of, s) == [isNil |-> FALSE, elems |-> s, of |-> of]
\* append(out, x) allocates when out is nil
append(out, x) == [isNil |-> FALSE, elems |-> Append(out.elems, x), of |-> out.of]

\* errors
NoErr == [kind |-> "nil", detail |-> ""]
DispatcherErrors ==
    { [kind |-> "dispatcher", detail |-> d]
      : d \in {"connection", "http 404", "malformed scalar"} }
\* fmt.Errorf("Custom field %s not found in schema for controller vlans", k)
ErrCustomFieldNotFound(k) == [kind |-> "custom field not found in schema", detail |-> k]

\* fmt.Sprintf(format, ...): the format with its %d and %s arguments
Sprintf(format, ds, ss) == [fmt |-> format, ints |-> ds, strs |-> ss]


---------------------------------------------------------------------------
(* The scalar types of package phpipam.  JSONIntString is an integer type  *)
(* of its own: JSONIntString(n) and int(j) are Go conversions between it   *)
(* and int, which keep the number.  BoolIntString is a boolean type used   *)
(* unchanged by wire and domain records.                                   *)

JSONIntString(n) == [JSONIntString |-> n]
int(j) == j.JSONIntString

\* JSON tokens: a number, a string, null, true, false, an object, or no token
\* at all (the field is absent); text holds a number's or a string's
\* characters, members an object's members
Token(form, text) == [form |-> form, text |-> text, members |-> EmptyMap]
NumberToken(t) == Token("number", t)
StringToken(t) == Token("string", t)
NullToken == Token("null", <<>>)
TrueToken == Token("true", <<>>)
FalseToken == Token("false", <<>>)
AbsentToken == Token("absent", <<>>)
ObjectToken(m) == [form |-> "object", text |-> <<>>, members |-> m]

Digits == <<"0", "1", "2", "3", "4", "5", "6", "7", "8", "9">>

\* an integer literal: one digit or more
IsIntegerLiteral(t) ==
    /\ Len(t) > 0
    /\ \A i \in DOMAIN t : \E d \in DOMAIN Digits : Digits[d] = t[i]

\* an integer written in a single digit, whatever its size
Itoa_LastDigitOnly(n) == <<Digits[(n % 10) + 1]>>

\* strconv.Itoa for n >= 0: the decimal digits of n
RECURSIVE Itoa(_)
Itoa(n) ==
    IF n < 10 THEN <<Digits[n + 1]>>
    ELSE Itoa(n \div 10) \o <<Digits[(n % 10) + 1]>>

\* strconv.Atoi on an integer literal
RECURSIVE Atoi(_)
Atoi(t) ==
    IF Len(t) = 0 THEN 0
    ELSE LET c == t[Len(t)]
             d == CHOOSE x \in DOMAIN Digits : Digits[x] = c
         IN  Atoi(SubSeq(t, 1, Len(t) - 1)) * 10 + (d - 1)

\* the error of a scalar that cannot be parsed; the dispatcher returns it
\* from the decode of a response
MalformedScalar == [kind |-> "dispatcher", detail |-> "malformed scalar"]

\* a decode that takes whatever it cannot parse for zero
JSONIntString_UnmarshalJSON_SilentZero(tok) ==
    IF tok.form \in {"number", "string"} /\ IsIntegerLiteral(tok.text)
    THEN [value |-> Atoi(tok.text), err |-> NoErr]
    ELSE [value |-> 0, err |-> NoErr]

\* Normalized Integer decode: a bare number, a string holding an integer
\* literal, or an absent, null or empty token (zero); anything else fails
JSONIntString_UnmarshalJSON(tok) ==
    IF tok.form \in {"number", "string"} /\ IsIntegerLiteral(tok.text)
    THEN [value |-> Atoi(tok.text), err |-> NoErr]
    ELSE IF tok.form \in {"absent", "null"} \/ (tok.form = "string" /\ tok.text = <<>>)
    THEN [value |-> 0, err |-> NoErr]
    ELSE [value |-> 0, err |-> MalformedScalar]

\* Normalized Integer encode: always the quoted numeric string
JSONIntString_MarshalJSON(n) == StringToken(Itoa(n))

\* an encode that emits the native forms true and false
BoolIntString_MarshalJSON_Native(b) == IF b THEN TrueToken ELSE FalseToken

\* Normalized Boolean encode: the string "0" or "1"
BoolIntString_MarshalJSON(b) == StringToken(IF b THEN <<"1">> ELSE <<"0">>)

\* Normalized Boolean decode: "0" or "1", native true or false, or an absent
\* or empty token (false); anything else fails
BoolIntString_UnmarshalJSON(tok) ==
    IF tok.form = "true" \/ tok = StringToken(<<"1">>)
    THEN [value |-> TRUE, err |-> NoErr]
    ELSE IF tok.form \in {"false", "absent"} \/ tok = StringToken(<<"0">>)
                                              \/ tok = StringToken(<<>>)
    THEN [value |-> FALSE, err |-> NoErr]
    ELSE [value |-> FALSE, err |-> MalformedScalar]

---------------------------------------------------------------------------
(* The records.  Each table gives a domain struct's fields and their       *)
(* types: "int", "str", "bool" (BoolIntString), "map"                      *)
(* (map[string]interface{}) and "jis" (a JSONIntString held by the domain  *)
(* struct as well).  The wire struct has the same fields, with             *)
(* JSONIntString where the domain struct has int.                          *)

SectionFields ==
    [ ID |-> "int", Name |-> "str", Description |-> "str",
      MasterSection |-> "int", Permissions |-> "str", StrictMode |-> "bool",
      SubnetOrdering |-> "str", Order |-> "int", EditDate |-> "str",
      ShowVLAN |-> "bool", ShowVRF |-> "bool", ShowSupernetOnly |-> "bool",
      DNS |-> "int" ]

AddressFields ==
    [ ID |-> "int", SubnetID |-> "int", IPAddress |-> "str",
      IsGateway |-> "bool", Description |-> "str", Hostname |-> "str",
      MACAddress |-> "str", Owner |-> "str", Tag |-> "int",
      PTRIgnore |-> "bool", PTRRecordID |-> "int", DeviceID |-> "int",
      Port |-> "str", Note |-> "str", LastSeen |-> "str",
      ExcludePing |-> "bool", EditDate |-> "str", CustomFields |-> "map" ]

SubnetFields ==
    [ ID |-> "int", SubnetAddress |-> "str", Mask |-> "jis",
      Description |-> "str", SectionID |-> "int", LinkedSubnet |-> "int",
      VLANID |-> "int", VRFID |-> "int", MasterSubnetID |-> "int",
      NameserverID |-> "int", Nameservers |-> "map", ShowName |-> "bool",
      Permissions |-> "str", DNSRecursive |-> "bool", DNSRecords |-> "bool",
      AllowRequests |-> "bool", ScanAgent |-> "int", PingSubnet |-> "bool",
      DiscoverSubnet |-> "bool", IsFolder |-> "bool", IsPool |-> "bool",
      IsFull |-> "bool", Threshold |-> "int", Location |-> "int",
      EditDate |-> "str", Gateway |-> "map", GatewayID |-> "str",
      CustomFields |-> "map", ResolveDNS |-> "bool" ]

VLANFields ==
    [ ID |-> "int", DomainID |-> "int", Name |-> "str", Number |-> "int",
      Description |-> "str", EditDate |-> "str", CustomFields |-> "map" ]

L2DomainFields ==
    [ ID |-> "int", Name |-> "str", Description |-> "str", Sections |-> "str" ]

\* the wire struct's field types
DTOFields(T) == [f \in DOMAIN T |-> IF T[f] = "int" THEN "jis" ELSE T[f]]

\* the zero value of a type, and its i-th other value
ZeroOf(t) ==
    CASE t = "int" -> 0
      [] t = "jis" -> JSONIntString(0)
      [] t = "str" -> ""
      [] t = "bool" -> FALSE
      [] t = "map" -> EmptyMap

ValueOf(t, i) ==
    CASE t = "int" -> i
      [] t = "jis" -> JSONIntString(i)
      [] t = "str" -> IF i = 1 THEN "a" ELSE "b"
      [] t = "bool" -> TRUE
      [] t = "map" -> SomeMap

\* var x T: every field zero
ZeroRecord(T) == [f \in DOMAIN T |-> ZeroOf(T[f])]

RECURSIVE SubsetsUpTo(_, _)
SubsetsUpTo(F, n) ==
    IF n = 0 THEN {{}}
    ELSE LET P == SubsetsUpTo(F, n - 1)
         IN  P \cup {S \cup {f} : S \in P, f \in F}

\* the record of field types T whose fields in S hold the values g picks and
\* whose other fields are zero
RecordWith(T, S, g) ==
    [f \in DOMAIN T |-> IF f \in S THEN ValueOf(T[f], g[f]) ELSE ZeroOf(T[f])]

\* the records of field types T with at most n fields off the zero value
RecordsOf(T, n) ==
    UNION { { RecordWith(T, S, g) : g \in [S -> 1..MaxId] }
            : S \in SubsetsUpTo(DOMAIN T, n) }

\* wire records that differ in their ID and Description only: the elements
\* of decoded sequences
ElementsOf(T) ==
    { [f \in DOMAIN T |->
         IF f = "ID" THEN JSONIntString(i)
         ELSE IF f = "Description" THEN n
         ELSE ZeroOf(DTOFields(T)[f])] : i \in Ids, n \in Names }

\* the sequences of at most n elements of S
SeqsUpTo(S, n) == UNION { [1..k -> S] : k \in 0..n }

---------------------------------------------------------------------------
(* The wire structs' json tags: the name each field has in a JSON object   *)
(* and whether the tag says omitempty.                                     *)

Tag(name, omitempty) == [name |-> name, omitempty |-> omitempty]

SectionTags ==
    [ ID |-> Tag("id", TRUE), Name |-> Tag("name", TRUE),
      Description |-> Tag("description", TRUE),
      MasterSection |-> Tag("masterSection", TRUE),
      Permissions |-> Tag("permissions", TRUE),
      StrictMode |-> Tag("strictMode", TRUE),
      SubnetOrdering |-> Tag("subnetOrdering", TRUE),
      Order |-> Tag("order", TRUE), EditDate |-> Tag("editDate", TRUE),
      ShowVLAN |-> Tag("showVLAN", TRUE), ShowVRF |-> Tag("showVRF", TRUE),
      ShowSupernetOnly |-> Tag("showSupernetOnly", TRUE),
      DNS |-> Tag("DNS", TRUE) ]

AddressTags ==
    [ ID |-> Tag("id", TRUE), SubnetID |-> Tag("subnetId", TRUE),
      IPAddress |-> Tag("ip", TRUE), IsGateway |-> Tag("is_gateway", TRUE),
      Description |-> Tag("description", TRUE),
      Hostname |-> Tag("hostname", TRUE), MACAddress |-> Tag("mac", TRUE),
      Owner |-> Tag("owner", TRUE), Tag |-> Tag("tag", TRUE),
      PTRIgnore |-> Tag("PTRIgnore", TRUE), PTRRecordID |-> Tag("PTR", TRUE),
      DeviceID |-> Tag("deviceId", TRUE), Port |-> Tag("port", TRUE),
      Note |-> Tag("note", TRUE), LastSeen |-> Tag("lastSeen", TRUE),
      ExcludePing |-> Tag("excludePing", TRUE),
      EditDate |-> Tag("editDate", TRUE),
      CustomFields |-> Tag("custom_fields", TRUE) ]

SubnetTags ==
    [ ID |-> Tag("id", TRUE), SubnetAddress |-> Tag("subnet", TRUE),
      Mask |-> Tag("mask", TRUE), Description |-> Tag("description", TRUE),
      SectionID |-> Tag("sectionId", TRUE),
      LinkedSubnet |-> Tag("linked_subnet", TRUE),
      VLANID |-> Tag("vlanId", TRUE), VRFID |-> Tag("vrfId", TRUE),
      MasterSubnetID |-> Tag("masterSubnetId", TRUE),
      NameserverID |-> Tag("nameserverId", TRUE),
      Nameservers |-> Tag("nameservers", TRUE),
      ShowName |-> Tag("showName", TRUE),
      Permissions |-> Tag("permissions", TRUE),
      DNSRecursive |-> Tag("DNSrecursive", TRUE),
      DNSRecords |-> Tag("DNSrecords", TRUE),
      AllowRequests |-> Tag("allowRequests", TRUE),
      ScanAgent |-> Tag("scanAgent", TRUE),
      PingSubnet |-> Tag("pingSubnet", TRUE),
      DiscoverSubnet |-> Tag("discoverSubnet", TRUE),
      IsFolder |-> Tag("isFolder", TRUE), IsPool |-> Tag("isPool", TRUE),
      IsFull |-> Tag("isFull", TRUE), Threshold |-> Tag("threshold", TRUE),
      Location |-> Tag("location", TRUE), EditDate |-> Tag("editDate", TRUE),
      Gateway |-> Tag("gateway", TRUE), GatewayID |-> Tag("gatewayId", TRUE),
      CustomFields |-> Tag("custom_fields", TRUE),
      ResolveDNS |-> Tag("resolveDNS", TRUE) ]

\* a VLAN wire struct whose id has no omitempty
VLANTags_IDAlwaysSent ==
    [ ID |-> Tag("id", FALSE), DomainID |-> Tag("domainId", TRUE),
      Name |-> Tag("name", TRUE), Number |-> Tag("number", TRUE),
      Description |-> Tag("description", TRUE),
      EditDate |-> Tag("editDate", TRUE),
      CustomFields |-> Tag("custom_fields", TRUE) ]

VLANTags ==
    [ ID |-> Tag("id", TRUE), DomainID |-> Tag("domainId", TRUE),
      Name |-> Tag("name", TRUE), Number |-> Tag("number", TRUE),
      Description |-> Tag("description", TRUE),
      EditDate |-> Tag("editDate", TRUE),
      CustomFields |-> Tag("custom_fields", TRUE) ]

L2DomainTags ==
    [ ID |-> Tag("id", TRUE), Name |-> Tag("name", TRUE),
      Description |-> Tag("description", TRUE),
      Sections |-> Tag("sections", TRUE) ]


---------------------------------------------------------------------------
(* The conversions, field by field as the source assigns them.  FromDTO    *)
(* assigns into its receiver; ToDTO builds a new wire record.              *)

Section_FromDTO(s, sectionDTO) ==
    [ s EXCEPT
        !.ID = int(sectionDTO.ID),
        !.Name = sectionDTO.Name,
        !.Description = sectionDTO.Description,
        !.MasterSection = int(sectionDTO.MasterSection),
        !.Permissions = sectionDTO.Permissions,
        !.StrictMode = sectionDTO.StrictMode,
        !.SubnetOrdering = sectionDTO.SubnetOrdering,
        !.Order = int(sectionDTO.Order),
        !.EditDate = sectionDTO.EditDate,
        !.ShowVLAN = sectionDTO.ShowVLAN,
        !.ShowVRF = sectionDTO.ShowVRF,
        !.ShowSupernetOnly = sectionDTO.ShowSupernetOnly,
        !.DNS = int(sectionDTO.DNS) ]

Section_ToDTO(s) ==
    [ ID |-> JSONIntString(s.ID),
      Name |-> s.Name,
      Description |-> s.Description,
      MasterSection |-> JSONIntString(s.MasterSection),
      Permissions |-> s.Permissions,
      StrictMode |-> s.StrictMode,
      SubnetOrdering |-> s.SubnetOrdering,
      Order |-> JSONIntString(s.Order),
      EditDate |-> s.EditDate,
      ShowVLAN |-> s.ShowVLAN,
      ShowVRF |-> s.ShowVRF,
      ShowSupernetOnly |-> s.ShowSupernetOnly,
      DNS |-> JSONIntString(s.DNS) ]

Address_FromDTO(a, dto) ==
    [ a EXCEPT
        !.ID = int(dto.ID),
        !.SubnetID = int(dto.SubnetID),
        !.IPAddress = dto.IPAddress,
        !.IsGateway = dto.IsGateway,
        !.Description = dto.Description,
        !.Hostname = dto.Hostname,
        !.MACAddress = dto.MACAddress,
        !.Owner = dto.Owner,
        !.Tag = int(dto.Tag),
        !.PTRIgnore = dto.PTRIgnore,
        !.PTRRecordID = int(dto.PTRRecordID),
        !.DeviceID = int(dto.DeviceID),
        !.Port = dto.Port,
        !.Note = dto.Note,
        !.LastSeen = dto.LastSeen,
        !.ExcludePing = dto.ExcludePing,
        !.EditDate = dto.EditDate,
        !.CustomFields = dto.CustomFields ]

Address_ToDTO(a) ==
    [ ID |-> JSONIntString(a.ID),
      SubnetID |-> JSONIntString(a.SubnetID),
      IPAddress |-> a.IPAddress,
      IsGateway |-> a.IsGateway,
      Description |-> a.Description,
      Hostname |-> a.Hostname,
      MACAddress |-> a.MACAddress,
      Owner |-> a.Owner,
      Tag |-> JSONIntString(a.Tag),
      PTRIgnore |-> a.PTRIgnore,
      PTRRecordID |-> JSONIntString(a.PTRRecordID),
      DeviceID |-> JSONIntString(a.DeviceID),
      Port |-> a.Port,
      Note |-> a.Note,
      LastSeen |-> a.LastSeen,
      ExcludePing |-> a.ExcludePing,
      EditDate |-> a.EditDate,
      CustomFields |-> a.CustomFields ]

Subnet_FromDTO(s, subnetDTO) ==
    [ s EXCEPT
        !.ID = int(subnetDTO.ID),
        !.SubnetAddress = subnetDTO.SubnetAddress,
        !.Mask = subnetDTO.Mask,
        !.Description = subnetDTO.Description,
        !.SectionID = int(subnetDTO.SectionID),
        !.LinkedSubnet = int(subnetDTO.LinkedSubnet),
        !.VLANID = int(subnetDTO.VLANID),
        !.VRFID = int(subnetDTO.VRFID),
        !.MasterSubnetID = int(subnetDTO.MasterSubnetID),
        !.NameserverID = int(subnetDTO.NameserverID),
        !.Nameservers = subnetDTO.Nameservers,
        !.ShowName = subnetDTO.ShowName,
        !.Permissions = subnetDTO.Permissions,
        !.DNSRecursive = subnetDTO.DNSRecursive,
        !.DNSRecords = subnetDTO.DNSRecords,
        !.AllowRequests = subnetDTO.AllowRequests,
        !.ScanAgent = int(subnetDTO.ScanAgent),
        !.PingSubnet = subnetDTO.PingSubnet,
        !.DiscoverSubnet = subnetDTO.DiscoverSubnet,
        !.IsFolder = subnetDTO.IsFolder,
        !.IsPool = subnetDTO.IsPool,
        !.IsFull = subnetDTO.IsFull,
        !.Threshold = int(subnetDTO.Threshold),
        !.Location = int(subnetDTO.Location),
        !.EditDate = subnetDTO.EditDate,
        !.Gateway = subnetDTO.Gateway,
        !.GatewayID = subnetDTO.GatewayID,
        !.CustomFields = subnetDTO.CustomFields,
        !.ResolveDNS = subnetDTO.ResolveDNS ]

Subnet_ToDTO(s) ==
    [ ID |-> JSONIntString(s.ID),
      SubnetAddress |-> s.SubnetAddress,
      Mask |-> s.Mask,
      Description |-> s.Description,
      SectionID |-> JSONIntString(s.SectionID),
      LinkedSubnet |-> JSONIntString(s.LinkedSubnet),
      VLANID |-> JSONIntString(s.VLANID),
      VRFID |-> JSONIntString(s.VRFID),
      MasterSubnetID |-> JSONIntString(s.MasterSubnetID),
      NameserverID |-> JSONIntString(s.NameserverID),
      Nameservers |-> s.Nameservers,
      ShowName |-> s.ShowName,
      Permissions |-> s.Permissions,
      DNSRecursive |-> s.DNSRecursive,
      DNSRecords |-> s.DNSRecords,
      AllowRequests |-> s.AllowRequests,
      ScanAgent |-> JSONIntString(s.ScanAgent),
      PingSubnet |-> s.PingSubnet,
      DiscoverSubnet |-> s.DiscoverSubnet,
      IsFolder |-> s.IsFolder,
      IsPool |-> s.IsPool,
      IsFull |-> s.IsFull,
      Threshold |-> JSONIntString(s.Threshold),
      Location |-> JSONIntString(s.Location),
      EditDate |-> s.EditDate,
      Gateway |-> s.Gateway,
      GatewayID |-> s.GatewayID,
      CustomFields |-> s.CustomFields,
      ResolveDNS |-> s.ResolveDNS ]

\* a conversion that leaves CustomFields out
VLAN_FromDTO_NoCustomFields(v, dto) ==
    [ v EXCEPT
        !.ID = int(dto.ID),
        !.DomainID = int(dto.DomainID),
        !.Name = dto.Name,
        !.Number = int(dto.Number),
        !.Description = dto.Description,
        !.EditDate = dto.EditDate ]

VLAN_FromDTO(v, dto) ==
    [ v EXCEPT
        !.ID = int(dto.ID),
        !.DomainID = int(dto.DomainID),
        !.Name = dto.Name,
        !.Number = int(dto.Number),
        !.Description = dto.Description,
        !.EditDate = dto.EditDate,
        !.CustomFields = dto.CustomFields ]

VLAN_ToDTO(v) ==
    [ ID |-> JSONIntString(v.ID),
      DomainID |-> JSONIntString(v.DomainID),
      Name |-> v.Name,
      Number |-> JSONIntString(v.Number),
      Description |-> v.Description,
      EditDate |-> v.EditDate,
      CustomFields |-> v.CustomFields ]

L2Domain_FromDTO(ld, dto) ==
    [ ld EXCEPT
        !.ID = int(dto.ID),
        !.Name = dto.Name,
        !.Description = dto.Description,
        !.Sections = dto.Sections ]

\* a conversion that fills Sections from Description
L2Domain_ToDTO_SectionsFromDescription(ld) ==
    [ ID |-> JSONIntString(ld.ID),
      Name |-> ld.Name,
      Description |-> ld.Description,
      Sections |-> ld.Description ]

L2Domain_ToDTO(ld) ==
    [ ID |-> JSONIntString(ld.ID),
      Name |-> ld.Name,
      Description |-> ld.Description,
      Sections |-> ld.Sections ]

---------------------------------------------------------------------------
(* Method dispatch on the record kind.                                     *)

FieldsOf(kind) ==
    CASE kind = "Section" -> SectionFields
      [] kind = "Address" -> AddressFields
      [] kind = "Subnet" -> SubnetFields
      [] kind = "VLAN" -> VLANFields
      [] kind = "L2Domain" -> L2DomainFields

FromDTO(kind, x, dto) ==
    CASE kind = "Section" -> Section_FromDTO(x, dto)
      [] kind = "Address" -> Address_FromDTO(x, dto)
      [] kind = "Subnet" -> Subnet_FromDTO(x, dto)
      [] kind = "VLAN" -> VLAN_FromDTO(x, dto)
      [] kind = "L2Domain" -> L2Domain_FromDTO(x, dto)

TagsOf(kind) ==
    CASE kind = "Section" -> SectionTags
      [] kind = "Address" -> AddressTags
      [] kind = "Subnet" -> SubnetTags
      [] kind = "VLAN" -> VLANTags
      [] kind = "L2Domain" -> L2DomainTags

ToDTO(kind, x) ==
    CASE kind = "Section" -> Section_ToDTO(x)
      [] kind = "Address" -> Address_ToDTO(x)
      [] kind = "Subnet" -> Subnet_ToDTO(x)
      [] kind = "VLAN" -> VLAN_ToDTO(x)
      [] kind = "L2Domain" -> L2Domain_ToDTO(x)

Kinds == {"Section", "Address", "Subnet", "VLAN", "L2Domain"}

\* var x Kind  and  var dto KindDTO
ZeroDomain(kind) == ZeroRecord(FieldsOf(kind))
ZeroDTO(kind) == ZeroRecord(DTOFields(FieldsOf(kind)))

\* a loop whose result holds the loop variable itself: every element ends
\* as the last record converted
RangeFromDTO_AliasesLoopVar(kind, dtos, i, out) ==
    LET n == Len(dtos.elems)
    IN  IF n = 0 THEN out
        ELSE Slice(DomainType(kind), [j \in 1..n |-> FromDTO(kind, ZeroDomain(kind), dtos.elems[n])])

\* for _, dto := range dtos { var x Kind; x.FromDTO(&dto); out = append(out, x) }
RECURSIVE RangeFromDTO(_, _, _, _)
RangeFromDTO(kind, dtos, i, out) ==
    IF i > Len(dtos.elems) THEN out
    ELSE LET dto == dtos.elems[i]
             x == FromDTO(kind, ZeroDomain(kind), dto)
         IN  RangeFromDTO(kind, dtos, i + 1, append(out, x))

---------------------------------------------------------------------------
(* The inputs: what a caller passes and what the server answers.           *)

DomainArgs(kind) == RecordsOf(FieldsOf(kind), MaxArgFields)
DTOReplies(kind) == RecordsOf(DTOFields(FieldsOf(kind)), MaxArgFields)
DTOSeqReplies(kind) ==
    { Slice(DTOType(kind), q) : q \in SeqsUpTo(ElementsOf(FieldsOf(kind)), MaxList) }
\* ListL2Domains hands the dispatcher a []L2Domain to decode into
L2DomainSeqReplies ==
    { Slice(DomainType("L2Domain"), q)
      : q \in SeqsUpTo({ FromDTO("L2Domain", ZeroDomain("L2Domain"), e)
                         : e \in ElementsOf(L2DomainFields) }, MaxList) }

\* map[string]phpipam.CustomField: the schema, a descriptor per field name
CustomField == [type |-> "varchar(255)"]
\* (no server defines a field unknown_key)
Schemas == UNION { [S -> {CustomField}] : S \in SUBSET (Keys \ {"unknown_key"}) }

\* a caller's update map: at most MaxKeys of the keys
UpdateMaps == UNION { [S -> CallerVals] : S \in SubsetsUpTo(Keys, MaxKeys) }
\* custom fields as read back
CustomFieldMaps == {EmptyMap, SomeMap}

IPs == {"10.0.0.1", "10.0.0.2"}
CIDRs == {"10.0.0.0/24", "10.0.1.0/24"}

\* the dispatcher's reply to one request: the decoded data, or an error
Replies(D) ==
    { [err |-> NoErr, data |-> d] : d \in D }
      \cup { [err |-> e, data |-> EmptyStruct] : e \in DispatcherErrors }

---------------------------------------------------------------------------
(* The dispatcher of package client (not part of these sources): it sends  *)
(* the request and either decodes the response into the destination or     *)
(* returns an error and leaves the destination as it was.                  *)

\* the body of DeleteAddress: struct { RemoveDNS phpipam.BoolIntString }
DeleteAddressBodyFields == [RemoveDNS |-> "bool"]
DeleteAddressBodyTags == [RemoveDNS |-> Tag("remove_dns", TRUE)]

\* omitempty's empty values: zero, false, the empty string, a map of no key
IsEmptyValue(t, v) ==
    CASE t = "jis" -> int(v) = 0
      [] t = "bool" -> ~v
      [] t = "str" -> v = ""
      [] t = "map" -> DOMAIN v = {}

\* a field's value as a token
MarshalField(t, v) ==
    CASE t = "jis" -> JSONIntString_MarshalJSON(int(v))
      [] t = "bool" -> BoolIntString_MarshalJSON(v)
      [] t = "str" -> StringToken(<<v>>)
      [] t = "map" -> ObjectToken(v)

\* an interface{} value of a map as a token
MarshalValue(v) ==
    IF v.kind = "int" THEN NumberToken(Itoa(v.n)) ELSE StringToken(<<v.s>>)

\* the request body as the JSON object sent, a function from member names to
\* tokens: a wire struct under its tags, without the fields omitempty
\* leaves out; a map key by key; struct{}{} as the empty object
json_Marshal(body) ==
    IF DOMAIN body = DOMAIN EmptyStruct
    THEN [w \in {} |-> NullToken]
    ELSE IF DOMAIN body \subseteq Keys
    THEN [k \in DOMAIN body |-> MarshalValue(body[k])]
    ELSE LET anon == DOMAIN body = DOMAIN DeleteAddressBodyFields
             kind == CHOOSE k \in Kinds : anon \/ DOMAIN body = DOMAIN FieldsOf(k)
             T == IF anon THEN DeleteAddressBodyFields ELSE DTOFields(FieldsOf(kind))
             tags == IF anon THEN DeleteAddressBodyTags ELSE TagsOf(kind)
             sent == { f \in DOMAIN body :
                         ~(tags[f].omitempty /\ IsEmptyValue(T[f], body[f])) }
         IN  [ w \in { tags[f].name : f \in sent } |->
                 LET f == CHOOSE x \in sent : tags[x].name = w
                 IN  MarshalField(T[f], body[f]) ]

SendRequest(log, method, path, body, dst, r) ==
    [ reqs |-> Append(log, [method |-> method, path |-> path, body |-> body,
                            json |-> json_Marshal(body), dst |-> dst]),
      out  |-> IF r.err = NoErr THEN r.data ELSE dst,
      err  |-> r.err ]

\* client.GetCustomFieldsSchema(controller): fetches the schema
Client_GetCustomFieldsSchema(log, controller, r) ==
    SendRequest(log, "GET", Sprintf("/%s/custom_fields/", <<>>, <<controller>>),
                EmptyStruct, EmptyMap, r)

\* client.GetCustomFields(id, controller): fetches a resource's custom fields
Client_GetCustomFields(log, id, controller, r) ==
    SendRequest(log, "GET", Sprintf("/%s/%d/custom_fields/", <<id>>, <<controller>>),
                EmptyStruct, EmptyMap, r)

\* m[k] = v
Put(m, k, v) == [x \in DOMAIN m \cup {k} |-> IF x = k THEN v ELSE m[x]]

\* client.UpdateCustomFields(id, in, controller): PATCHes the identifier
\* plus the custom-field map
Client_UpdateCustomFields(log, id, in, controller, r) ==
    SendRequest(log, "PATCH", Sprintf("/%s/", <<>>, <<controller>>),
                Put(in, "id", IntV(id)), "", r)

MutatingMethods == {"POST", "PATCH", "DELETE"}

---------------------------------------------------------------------------
(* The shapes every plain operation has: one SendRequest, then return.     *)
(* A controller holds nothing but its client, so a call starts from the    *)
(* same state whatever was called before.                                  *)

Literal(path) == Sprintf(path, <<>>, <<>>)

\* the caller calls operation name with arguments a
Call(name, a) ==
    /\ op = "idle"
    /\ op' = name
    /\ args' = a
    /\ UNCHANGED <<ctrl, calls>>

\* what a caller may pass: the controller's methods block, so a caller in a
\* call passes nothing until it has returned
Calling(S) == IF op = "idle" THEN S ELSE {}

\* the call is over: what it sent, what it was answered, what it returns
Return(log, rs, seen, result) ==
    /\ reqs' = log
    /\ resps' = rs
    /\ visited' = seen
    /\ ret' = result

\* a send that tries once more when the dispatcher fails
SendForMessage_RetriesOnError(method, path, body) ==
    \E r \in Replies(Messages), r2 \in Replies(Messages) :
        LET s == SendRequest(<<>>, method, path, body, "", r)
            t == SendRequest(s.reqs, method, path, body, "", r2)
        IN  IF s.err = NoErr
            THEN Return(s.reqs, <<r>>, <<>>, [message |-> s.out, err |-> s.err])
            ELSE Return(t.reqs, <<r, r2>>, <<>>, [message |-> t.out, err |-> t.err])

\* err = c.SendRequest(method, path, body, &message); return
SendForMessage(method, path, body) ==
    \E r \in Replies(Messages) :
        LET s == SendRequest(<<>>, method, path, body, "", r)
        IN  Return(s.reqs, <<r>>, <<>>, [message |-> s.out, err |-> s.err])

\* err = c.SendRequest(method, path, body, &struct{}{}); return
SendForNothing(method, path, body) ==
    \E r \in Replies({EmptyStruct}) :
        LET s == SendRequest(<<>>, method, path, body, EmptyStruct, r)
        IN  Return(s.reqs, <<r>>, <<>>, [err |-> s.err])

\* a get whose conversion leaves no error behind
GetOne_ConversionClearsError(kind, path) ==
    \E r \in Replies(DTOReplies(kind)) :
        LET s == SendRequest(<<>>, "GET", path, EmptyStruct, ZeroDTO(kind), r)
        IN  Return(s.reqs, <<r>>, <<>>,
                   [out |-> FromDTO(kind, ZeroDomain(kind), s.out), err |-> NoErr])

\* a get that wraps the dispatcher's error in one of its own
GetOne_WrapsError(kind, path) ==
    \E r \in Replies(DTOReplies(kind)) :
        LET s == SendRequest(<<>>, "GET", path, EmptyStruct, ZeroDTO(kind), r)
            wrapped == [kind |-> "get failed", detail |-> s.err.detail]
        IN  Return(s.reqs, <<r>>, <<>>,
                   [out |-> FromDTO(kind, ZeroDomain(kind), s.out),
                    err |-> IF s.err = NoErr THEN NoErr ELSE wrapped])

\* var dto KindDTO; err = c.SendRequest("GET", path, &struct{}{}, &dto);
\* out.FromDTO(&dto); return
GetOne(kind, path) ==
    \E r \in Replies(DTOReplies(kind)) :
        LET s == SendRequest(<<>>, "GET", path, EmptyStruct, ZeroDTO(kind), r)
        IN  Return(s.reqs, <<r>>, <<>>,
                   [out |-> FromDTO(kind, ZeroDomain(kind), s.out), err |-> s.err])

\* var dtos []KindDTO; err = c.SendRequest("GET", path, &struct{}{}, &dtos);
\* for _, dto := range dtos { ... out = append(out, x) }; return
GetMany(kind, path) ==
    \E r \in Replies(DTOSeqReplies(kind)) :
        LET s == SendRequest(<<>>, "GET", path, EmptyStruct, NilSlice(DTOType(kind)), r)
        IN  Return(s.reqs, <<r>>, <<>>,
                   [out |-> RangeFromDTO(kind, s.out, 1, NilSlice(DomainType(kind))), err |-> s.err])

\* out, err = c.Client.GetCustomFieldsSchema(controller); return
GetSchema(controller) ==
    \E r \in Replies(Schemas) :
        LET s == Client_GetCustomFieldsSchema(<<>>, controller, r)
        IN  Return(s.reqs, <<r>>, <<>>, [out |-> s.out, err |-> s.err])

\* out, err = c.Client.GetCustomFields(id, controller); return
GetCustomFields(id, controller) ==
    \E r \in Replies(CustomFieldMaps) :
        LET s == Client_GetCustomFields(<<>>, id, controller, r)
        IN  Return(s.reqs, <<r>>, <<>>, [out |-> s.out, err |-> s.err])

\* message, err = c.Client.UpdateCustomFields(id, in, controller); return
UpdateCustomFields(id, in, controller) ==
    \E r \in Replies(Messages) :
        LET s == Client_UpdateCustomFields(<<>>, id, in, controller, r)
        IN  Return(s.reqs, <<r>>, <<>>, [message |-> s.out, err |-> s.err])

---------------------------------------------------------------------------
(* Controller vlans.                                                       *)

CreateVLAN(in) ==
    /\ Call("CreateVLAN", [in |-> in])
    /\ SendForMessage("POST", Literal("/vlans/"), VLAN_ToDTO(in))

GetVLANByID(id) ==
    /\ Call("GetVLANByID", [id |-> id])
    /\ GetOne("VLAN", Sprintf("/vlans/%d/", <<id>>, <<>>))

GetVLANsByNumber(id) ==
    /\ Call("GetVLANsByNumber", [id |-> id])
    /\ GetMany("VLAN", Sprintf("/vlans/search/%d/", <<id>>, <<>>))

GetVLANsByNumberAndDomainID(vlan_id, domain_id) ==
    /\ Call("GetVLANsByNumberAndDomainID", [vlan_id |-> vlan_id, domain_id |-> domain_id])
    /\ GetMany("VLAN", Sprintf("/vlans/search/%d/?filter_by=domainId&filter_value=%d",
                               <<vlan_id, domain_id>>, <<>>))

GetVLANCustomFieldsSchema ==
    /\ Call("GetVLANCustomFieldsSchema", <<>>)
    /\ GetSchema("vlans")

GetVLANCustomFields(id) ==
    /\ Call("GetVLANCustomFields", [id |-> id])
    /\ GetCustomFields(id, "vlans")

UpdateVLAN(in) ==
    /\ Call("UpdateVLAN", [in |-> in])
    /\ SendForMessage("PATCH", Literal("/vlans/"), VLAN_ToDTO(in))

DeleteVLAN(id) ==
    /\ Call("DeleteVLAN", [id |-> id])
    /\ SendForMessage("DELETE", Sprintf("/vlans/%d/", <<id>>, <<>>), EmptyStruct)

\* the orders in which a range over a map with key set S may visit its keys
Orders(S) ==
    { o \in [1..Cardinality(S) -> S] : \A i, j \in DOMAIN o : i # j => o[i] # o[j] }

\* a validation loop that leaves at the first key it finds in the schema
ValidateKeys_StopsAtFirstFound(order, schema, i) ==
    IF i > Len(order) THEN [found |-> TRUE, k |-> "", visited |-> order]
    ELSE IF order[i] \in DOMAIN schema
         THEN [found |-> TRUE, k |-> "", visited |-> SubSeq(order, 1, i)]
         ELSE [found |-> FALSE, k |-> order[i], visited |-> SubSeq(order, 1, i)]

\* for k := range in { for l := range schema { if k == l { goto customFieldFound } }
\*   return "", fmt.Errorf(...)  customFieldFound: }
\* over the keys in the order the range visits them: whether every key was
\* found, the key that was not, and the keys examined
RECURSIVE ValidateKeys(_, _, _)
ValidateKeys(order, schema, i) ==
    IF i > Len(order) THEN [found |-> TRUE, k |-> "", visited |-> order]
    ELSE LET k == order[i]
         IN  IF \E l \in DOMAIN schema : k = l
             THEN ValidateKeys(order, schema, i + 1)
             ELSE [found |-> FALSE, k |-> k, visited |-> SubSeq(order, 1, i)]

\* for k, v := range in { params[k] = v }
RECURSIVE CopyParams(_, _, _, _)
CopyParams(in, order, i, params) ==
    IF i > Len(order) THEN params
    ELSE CopyParams(in, order, i + 1, Put(params, order[i], in[order[i]]))

\* a payload built with id and name set before the copy of in
BuildParams_CallerWins(id, name, in, order) ==
    CopyParams(in, order, 1, Put(Put(EmptyMap, "id", IntV(id)), "name", StrV(name)))

\* a payload whose name is the caller's when the update map has one
BuildParams_NameFromMap(id, name, in, order) ==
    LET params == Put(Put(CopyParams(in, order, 1, EmptyMap), "id", IntV(id)),
                      "name", StrV(name))
    IN  IF "name" \in DOMAIN in THEN Put(params, "name", in["name"]) ELSE params

\* params := make(map[string]interface{}); the copy of in;
\* params["id"] = id; params["name"] = name
BuildParams(id, name, in, order) ==
    Put(Put(CopyParams(in, order, 1, EmptyMap), "id", IntV(id)), "name", StrV(name))

\* params := in: the variable params refers to the caller's map
ParamsRef_AliasesIn == "in"

\* params := make(...): the variable params refers to a map of its own
ParamsRef == "params"

\* the two maps once the payload is built, the caller's under "in" and the
\* one make allocated under "params": every write went to the map the
\* variable params refers to
MapsAfterBuild(id, name, in, order) ==
    [ [in |-> in, params |-> EmptyMap]
        EXCEPT ![ParamsRef] = BuildParams(id, name, in, order) ]

\* an update that PATCHes first and validates afterwards
UpdateVLANCustomFields_PatchesThenValidates(id, name, in) ==
    /\ Call("UpdateVLANCustomFields", [id |-> id, name |-> name, in |-> in])
    /\ \E r1 \in Replies(Schemas) :
          LET f == Client_GetCustomFieldsSchema(<<>>, "vlans", r1)
          IN  IF f.err # NoErr
              THEN Return(f.reqs, <<r1>>, <<>>, [message |-> "", err |-> f.err])
              ELSE \E order1 \in Orders(DOMAIN in), order2 \in Orders(DOMAIN in),
                      r2 \in Replies(Messages) :
                      LET v == ValidateKeys(order1, f.out, 1)
                          s == SendRequest(f.reqs, "PATCH", Literal("/vlans/"),
                                           BuildParams(id, name, in, order2), "", r2)
                      IN  IF ~v.found
                          THEN Return(s.reqs, <<r1, r2>>, v.visited,
                                      [message |-> "", err |-> ErrCustomFieldNotFound(v.k)])
                          ELSE Return(s.reqs, <<r1, r2>>, v.visited,
                                      [message |-> s.out, err |-> s.err])

\* an update that does not look at the schema fetch's error
UpdateVLANCustomFields_IgnoresSchemaErr(id, name, in) ==
    /\ Call("UpdateVLANCustomFields", [id |-> id, name |-> name, in |-> in])
    /\ \E r1 \in Replies(Schemas), order1 \in Orders(DOMAIN in) :
          LET f == Client_GetCustomFieldsSchema(<<>>, "vlans", r1)
              v == ValidateKeys(order1, f.out, 1)
          IN  IF ~v.found
              THEN Return(f.reqs, <<r1>>, v.visited,
                          [message |-> "", err |-> ErrCustomFieldNotFound(v.k)])
              ELSE \E r2 \in Replies(Messages), order2 \in Orders(DOMAIN in) :
                      LET s == SendRequest(f.reqs, "PATCH", Literal("/vlans/"),
                                           BuildParams(id, name, in, order2), "", r2)
                      IN  Return(s.reqs, <<r1, r2>>, v.visited,
                                 [message |-> s.out, err |-> s.err])

\* r1 and r2 are the dispatcher's replies to the schema fetch and to the
\* PATCH, order1 and order2 the orders in which the two ranges over in visit
\* its keys; the result carries, under in, the caller's map as the call
\* leaves it
UpdateVLANCustomFields(id, name, in) ==
    /\ Call("UpdateVLANCustomFields", [id |-> id, name |-> name, in |-> in])
    /\ \E r1 \in Replies(Schemas) :
          LET f == Client_GetCustomFieldsSchema(<<>>, "vlans", r1)
              schema == f.out
          IN  IF f.err # NoErr
              THEN Return(f.reqs, <<r1>>, <<>>,
                          [message |-> "", err |-> f.err, in |-> in])
              ELSE \E order1 \in Orders(DOMAIN in) :
                      LET v == ValidateKeys(order1, schema, 1)
                      IN  IF ~v.found
                          THEN Return(f.reqs, <<r1>>, v.visited,
                                      [message |-> "", err |-> ErrCustomFieldNotFound(v.k),
                                       in |-> in])
                          ELSE \E r2 \in Replies(Messages), order2 \in Orders(DOMAIN in) :
                                  LET maps == MapsAfterBuild(id, name, in, order2)
                                      params == maps[ParamsRef]
                                      s == SendRequest(f.reqs, "PATCH", Literal("/vlans/"),
                                                       params, "", r2)
                                  IN  Return(s.reqs, <<r1, r2>>, v.visited,
                                             [message |-> s.out, err |-> s.err,
                                              in |-> maps.in])

vlansNext ==
    \/ \E in \in Calling(DomainArgs("VLAN")) : CreateVLAN(in)
    \/ \E id \in Calling(Ids) : GetVLANByID(id)
    \/ \E id \in Calling(Ids) : GetVLANsByNumber(id)
    \/ \E vlan_id \in Calling(Ids), domain_id \in Calling(Ids) : GetVLANsByNumberAndDomainID(vlan_id, domain_id)
    \/ GetVLANCustomFieldsSchema
    \/ \E id \in Calling(Ids) : GetVLANCustomFields(id)
    \/ \E in \in Calling(DomainArgs("VLAN")) : UpdateVLAN(in)
    \/ \E id \in Calling(Ids), name \in Calling(Names), in \in Calling(UpdateMaps) : UpdateVLANCustomFields(id, name, in)
    \/ \E id \in Calling(Ids) : DeleteVLAN(id)

---------------------------------------------------------------------------
(* Controller sections.                                                    *)

ListSections ==
    /\ Call("ListSections", <<>>)
    /\ GetMany("Section", Literal("/sections/"))

CreateSection(in) ==
    /\ Call("CreateSection", [in |-> in])
    /\ SendForMessage("POST", Literal("/sections/"), Section_ToDTO(in))

GetSectionByID(id) ==
    /\ Call("GetSectionByID", [id |-> id])
    /\ GetOne("Section", Sprintf("/sections/%d/", <<id>>, <<>>))

GetSectionByName(name) ==
    /\ Call("GetSectionByName", [name |-> name])
    /\ GetOne("Section", Sprintf("/sections/%s/", <<>>, <<name>>))

GetSubnetsInSection(id) ==
    /\ Call("GetSubnetsInSection", [id |-> id])
    /\ GetMany("Subnet", Sprintf("/sections/%d/subnets/", <<id>>, <<>>))

UpdateSection(in) ==
    /\ Call("UpdateSection", [in |-> in])
    /\ SendForNothing("PATCH", Literal("/sections/"), Section_ToDTO(in))

\* a delete that lists the section's subnets before it deletes the section
DeleteSection_ListsSubnetsFirst(id) ==
    /\ Call("DeleteSection", [id |-> id])
    /\ \E r1 \in Replies(DTOSeqReplies("Subnet")), r2 \in Replies({EmptyStruct}) :
          LET l == SendRequest(<<>>, "GET", Sprintf("/sections/%d/subnets/", <<id>>, <<>>),
                               EmptyStruct, NilSlice(DTOType("Subnet")), r1)
              s == SendRequest(l.reqs, "DELETE", Sprintf("/sections/%d/", <<id>>, <<>>),
                               EmptyStruct, EmptyStruct, r2)
          IN  Return(s.reqs, <<r1, r2>>, <<>>, [err |-> s.err])

DeleteSection(id) ==
    /\ Call("DeleteSection", [id |-> id])
    /\ SendForNothing("DELETE", Sprintf("/sections/%d/", <<id>>, <<>>), EmptyStruct)

sectionsNext ==
    \/ ListSections
    \/ \E in \in Calling(DomainArgs("Section")) : CreateSection(in)
    \/ \E id \in Calling(Ids) : GetSectionByID(id)
    \/ \E name \in Calling(Names) : GetSectionByName(name)
    \/ \E id \in Calling(Ids) : GetSubnetsInSection(id)
    \/ \E in \in Calling(DomainArgs("Section")) : UpdateSection(in)
    \/ \E id \in Calling(Ids) : DeleteSection(id)

---------------------------------------------------------------------------
(* Controller addresses.  (A string result the source names out is kept    *)
(* under message here.)                                                    *)

CreateAddress(in) ==
    /\ Call("CreateAddress", [in |-> in])
    /\ SendForMessage("POST", Literal("/addresses/"), Address_ToDTO(in))

CreateFirstFreeAddress(id, in) ==
    /\ Call("CreateFirstFreeAddress", [id |-> id, in |-> in])
    /\ SendForMessage("POST", Sprintf("/addresses/first_free/%d/", <<id>>, <<>>),
                      Address_ToDTO(in))

GetAddressByID(id) ==
    /\ Call("GetAddressByID", [id |-> id])
    /\ GetOne("Address", Sprintf("/addresses/%d/", <<id>>, <<>>))

GetAddressesByIP(ipaddr) ==
    /\ Call("GetAddressesByIP", [ipaddr |-> ipaddr])
    /\ GetMany("Address", Sprintf("/addresses/search/%s/", <<>>, <<ipaddr>>))

GetAddressesByIpInSubnet(ipaddr, subnetID) ==
    /\ Call("GetAddressesByIpInSubnet", [ipaddr |-> ipaddr, subnetID |-> subnetID])
    /\ GetOne("Address", Sprintf("/addresses/%s/%d", <<subnetID>>, <<ipaddr>>))

GetAddressCustomFieldsSchema ==
    /\ Call("GetAddressCustomFieldsSchema", <<>>)
    /\ GetSchema("addresses")

GetAddressCustomFields(id) ==
    /\ Call("GetAddressCustomFields", [id |-> id])
    /\ GetCustomFields(id, "addresses")

UpdateAddress(in) ==
    /\ Call("UpdateAddress", [in |-> in])
    /\ SendForMessage("PATCH", Literal("/addresses/"), Address_ToDTO(in))

UpdateAddressCustomFields(id, in) ==
    /\ Call("UpdateAddressCustomFields", [id |-> id, in |-> in])
    /\ UpdateCustomFields(id, in, "addresses")

DeleteAddress(id, RemoveDNS) ==
    /\ Call("DeleteAddress", [id |-> id, RemoveDNS |-> RemoveDNS])
    /\ SendForMessage("DELETE", Sprintf("/addresses/%d/", <<id>>, <<>>),
                      [RemoveDNS |-> RemoveDNS])

addressesNext ==
    \/ \E in \in Calling(DomainArgs("Address")) : CreateAddress(in)
    \/ \E id \in Calling(Ids), in \in Calling(DomainArgs("Address")) : CreateFirstFreeAddress(id, in)
    \/ \E id \in Calling(Ids) : GetAddressByID(id)
    \/ \E ipaddr \in Calling(IPs) : GetAddressesByIP(ipaddr)
    \/ \E ipaddr \in Calling(IPs), subnetID \in Calling(Ids) : GetAddressesByIpInSubnet(ipaddr, subnetID)
    \/ GetAddressCustomFieldsSchema
    \/ \E id \in Calling(Ids) : GetAddressCustomFields(id)
    \/ \E in \in Calling(DomainArgs("Address")) : UpdateAddress(in)
    \/ \E id \in Calling(Ids), in \in Calling(UpdateMaps) : UpdateAddressCustomFields(id, in)
    \/ \E id \in Calling(Ids), RemoveDNS \in Calling(BOOLEAN) : DeleteAddress(id, RemoveDNS)

---------------------------------------------------------------------------
(* Controller subnets.                                                     *)

CreateSubnet(in) ==
    /\ Call("CreateSubnet", [in |-> in])
    /\ SendForMessage("POST", Literal("/subnets/"), Subnet_ToDTO(in))

CreateFirstFreeSubnet(id, mask, in) ==
    /\ Call("CreateFirstFreeSubnet", [id |-> id, mask |-> mask, in |-> in])
    /\ SendForMessage("POST", Sprintf("/subnets/%d/first_subnet/%d/", <<id, mask>>, <<>>),
                      Subnet_ToDTO(in))

GetSubnetByID(id) ==
    /\ Call("GetSubnetByID", [id |-> id])
    /\ GetOne("Subnet", Sprintf("/subnets/%d/", <<id>>, <<>>))

GetSubnetsByCIDR(cidr) ==
    /\ Call("GetSubnetsByCIDR", [cidr |-> cidr])
    /\ GetMany("Subnet", Sprintf("/subnets/cidr/%s/", <<>>, <<cidr>>))

GetSubnetsByCIDRAndSection(cidr, section_id) ==
    /\ Call("GetSubnetsByCIDRAndSection", [cidr |-> cidr, section_id |-> section_id])
    /\ GetMany("Subnet", Sprintf("/subnets/cidr/%s/?filter_by=sectionId&filter_value=%d",
                                 <<section_id>>, <<cidr>>))

GetFirstFreeSubnet(id, mask) ==
    /\ Call("GetFirstFreeSubnet", [id |-> id, mask |-> mask])
    /\ SendForMessage("GET", Sprintf("/subnets/%d/first_subnet/%d/", <<id, mask>>, <<>>),
                      EmptyStruct)

GetFirstFreeAddress(id) ==
    /\ Call("GetFirstFreeAddress", [id |-> id])
    /\ SendForMessage("GET", Sprintf("/subnets/%d/first_free/", <<id>>, <<>>), EmptyStruct)

GetAddressesInSubnet(id) ==
    /\ Call("GetAddressesInSubnet", [id |-> id])
    /\ GetMany("Address", Sprintf("/subnets/%d/addresses/", <<id>>, <<>>))

GetSubnetCustomFieldsSchema ==
    /\ Call("GetSubnetCustomFieldsSchema", <<>>)
    /\ GetSchema("subnets")

GetSubnetCustomFields(id) ==
    /\ Call("GetSubnetCustomFields", [id |-> id])
    /\ GetCustomFields(id, "subnets")

UpdateSubnet(in) ==
    /\ Call("UpdateSubnet", [in |-> in])
    /\ SendForMessage("PATCH", Literal("/subnets/"), Subnet_ToDTO(in))

UpdateSubnetCustomFields(id, in) ==
    /\ Call("UpdateSubnetCustomFields", [id |-> id, in |-> in])
    /\ UpdateCustomFields(id, in, "subnets")

DeleteSubnet(id) ==
    /\ Call("DeleteSubnet", [id |-> id])
    /\ SendForMessage("DELETE", Sprintf("/subnets/%d/", <<id>>, <<>>), EmptyStruct)

\* subnet masks a caller asks for
Masks == {24, 30}

subnetsNext ==
    \/ \E in \in Calling(DomainArgs("Subnet")) : CreateSubnet(in)
    \/ \E id \in Calling(Ids), mask \in Calling(Masks), in \in Calling(DomainArgs("Subnet")) :
          CreateFirstFreeSubnet(id, mask, in)
    \/ \E id \in Calling(Ids) : GetSubnetByID(id)
    \/ \E cidr \in Calling(CIDRs) : GetSubnetsByCIDR(cidr)
    \/ \E cidr \in Calling(CIDRs), section_id \in Calling(Ids) : GetSubnetsByCIDRAndSection(cidr, section_id)
    \/ \E id \in Calling(Ids), mask \in Calling(Masks) : GetFirstFreeSubnet(id, mask)
    \/ \E id \in Calling(Ids) : GetFirstFreeAddress(id)
    \/ \E id \in Calling(Ids) : GetAddressesInSubnet(id)
    \/ GetSubnetCustomFieldsSchema
    \/ \E id \in Calling(Ids) : GetSubnetCustomFields(id)
    \/ \E in \in Calling(DomainArgs("Subnet")) : UpdateSubnet(in)
    \/ \E id \in Calling(Ids), in \in Calling(UpdateMaps) : UpdateSubnetCustomFields(id, in)
    \/ \E id \in Calling(Ids) : DeleteSubnet(id)

---------------------------------------------------------------------------
(* Controller l2domains.                                                   *)

\* err = c.SendRequest("GET", "/l2domains/", &struct{}{}, &out); return
\* (out is the []L2Domain result itself: nothing is converted)
ListL2Domains ==
    /\ Call("ListL2Domains", <<>>)
    /\ \E r \in Replies(L2DomainSeqReplies) :
          LET s == SendRequest(<<>>, "GET", Literal("/l2domains/"), EmptyStruct,
                               NilSlice(DomainType("L2Domain")), r)
          IN  Return(s.reqs, <<r>>, <<>>, [out |-> s.out, err |-> s.err])

CreateL2Domain(in) ==
    /\ Call("CreateL2Domain", [in |-> in])
    /\ SendForMessage("POST", Literal("/l2domains/"), L2Domain_ToDTO(in))

GetL2DomainByID(id) ==
    /\ Call("GetL2DomainByID", [id |-> id])
    /\ GetOne("L2Domain", Sprintf("/l2domains/%d/", <<id>>, <<>>))

\* a get by name that decodes and returns one record
GetL2DomainByName_ReturnsOne(name) ==
    /\ Call("GetL2DomainByName", [name |-> name])
    /\ GetOne("L2Domain", Sprintf("/l2domains/?filter_by=name&filter_value=%s",
                                  <<>>, <<name>>))

GetL2DomainByName(name) ==
    /\ Call("GetL2DomainByName", [name |-> name])
    /\ GetMany("L2Domain", Sprintf("/l2domains/?filter_by=name&filter_value=%s",
                                   <<>>, <<name>>))

GetVlansInl2Domain(id) ==
    /\ Call("GetVlansInl2Domain", [id |-> id])
    /\ GetMany("VLAN", Sprintf("/l2domains/%d/vlans/", <<id>>, <<>>))

UpdateL2Domain(in) ==
    /\ Call("UpdateL2Domain", [in |-> in])
    /\ SendForNothing("PATCH", Literal("/l2domains/"), L2Domain_ToDTO(in))

DeleteL2Domain(id) ==
    /\ Call("DeleteL2Domain", [id |-> id])
    /\ SendForNothing("DELETE", Sprintf("/l2domains/%d/", <<id>>, <<>>), EmptyStruct)

l2domainsNext ==
    \/ ListL2Domains
    \/ \E in \in Calling(DomainArgs("L2Domain")) : CreateL2Domain(in)
    \/ \E id \in Calling(Ids) : GetL2DomainByID(id)
    \/ \E name \in Calling(Names) : GetL2DomainByName(name)
    \/ \E id \in Calling(Ids) : GetVlansInl2Domain(id)
    \/ \E in \in Calling(DomainArgs("L2Domain")) : UpdateL2Domain(in)
    \/ \E id \in Calling(Ids) : DeleteL2Domain(id)

---------------------------------------------------------------------------
(* The conversions applied back to back, on records a caller or the        *)
(* dispatcher may hold.                                                    *)

\* dto := d.ToDTO(); var x Kind; x.FromDTO(dto)
DomainRoundTrip(kind, d) ==
    /\ Call("ToDTO;FromDTO", [kind |-> kind, in |-> d])
    /\ Return(<<>>, <<>>, <<>>, [out |-> FromDTO(kind, ZeroDomain(kind), ToDTO(kind, d))])

\* var x Kind; x.FromDTO(w); dto := x.ToDTO()
WireRoundTrip(kind, w) ==
    /\ Call("FromDTO;ToDTO", [kind |-> kind, in |-> w])
    /\ Return(<<>>, <<>>, <<>>, [out |-> ToDTO(kind, FromDTO(kind, ZeroDomain(kind), w))])

conversionsNext ==
    \/ \E kind \in Calling(Kinds) :
          \E S \in SubsetsUpTo(DOMAIN FieldsOf(kind), MaxRoundTripFields) :
             \E g \in [S -> 1..MaxId] :
                DomainRoundTrip(kind, RecordWith(FieldsOf(kind), S, g))
    \/ \E kind \in Calling(Kinds) :
          \E S \in SubsetsUpTo(DOMAIN FieldsOf(kind), MaxRoundTripFields) :
             \E g \in [S -> 1..MaxId] :
                WireRoundTrip(kind, RecordWith(DTOFields(FieldsOf(kind)), S, g))

---------------------------------------------------------------------------
(* The scalar types' encode and decode, on the integers, booleans and      *)
(* tokens a record or a response may hold.                                 *)

\* the tokens a response may hold in the place of a scalar
ScalarTokens ==
    { NumberToken(Itoa(n)) : n \in 0..MaxScalar }
      \cup { StringToken(Itoa(n)) : n \in 0..MaxScalar }
      \cup { StringToken(t) : t \in {<<>>, <<"a", "b", "c">>, <<"1", "x">>, <<"t", "r", "u", "e">>} }
      \cup { NullToken, TrueToken, FalseToken, AbsentToken, ObjectToken(EmptyMap) }

\* var j JSONIntString; err := j.UnmarshalJSON(tok)
DecodeJSONIntString(tok) ==
    /\ Call("JSONIntString.UnmarshalJSON", [in |-> tok])
    /\ LET d == JSONIntString_UnmarshalJSON(tok)
       IN  Return(<<>>, <<>>, <<>>, [out |-> d.value, err |-> d.err])

\* tok := JSONIntString(n).MarshalJSON(); decode tok; decode the bare number n
RoundTripJSONIntString(n) ==
    /\ Call("JSONIntString.MarshalJSON;UnmarshalJSON", [in |-> n])
    /\ LET tok == JSONIntString_MarshalJSON(n)
           d == JSONIntString_UnmarshalJSON(tok)
           native == JSONIntString_UnmarshalJSON(NumberToken(tok.text))
       IN  Return(<<>>, <<>>, <<>>,
                  [token |-> tok, out |-> d.value, err |-> d.err,
                   fromNumber |-> native.value, errFromNumber |-> native.err])

\* var b BoolIntString; err := b.UnmarshalJSON(tok)
DecodeBoolIntString(tok) ==
    /\ Call("BoolIntString.UnmarshalJSON", [in |-> tok])
    /\ LET d == BoolIntString_UnmarshalJSON(tok)
       IN  Return(<<>>, <<>>, <<>>, [out |-> d.value, err |-> d.err])

\* tok := BoolIntString(b).MarshalJSON(); decode tok; decode the native form
RoundTripBoolIntString(b) ==
    /\ Call("BoolIntString.MarshalJSON;UnmarshalJSON", [in |-> b])
    /\ LET tok == BoolIntString_MarshalJSON(b)
           d == BoolIntString_UnmarshalJSON(tok)
           native == BoolIntString_UnmarshalJSON(IF b THEN TrueToken ELSE FalseToken)
       IN  Return(<<>>, <<>>, <<>>,
                  [token |-> tok, out |-> d.value, err |-> d.err,
                   fromNative |-> native.value, errFromNative |-> native.err])

scalarsNext ==
    \/ \E tok \in Calling(ScalarTokens) : DecodeJSONIntString(tok)
    \/ \E n \in Calling(0..MaxScalar) : RoundTripJSONIntString(n)
    \/ \E tok \in Calling(ScalarTokens) : DecodeBoolIntString(tok)
    \/ \E b \in Calling(BOOLEAN) : RoundTripBoolIntString(b)

---------------------------------------------------------------------------
(* Concurrent callers of one vlans controller.  A call's variables (its    *)
(* arguments, named results and locals) are its own; the controller is     *)
(* shared.  A step is what a call does up to and including its next        *)
(* request, or its return.                                                 *)

Callers == 1..NumCallers

\* c := &Controller{Client: *client.NewClient(sess)}
NewController(sess) == [Client |-> [Session |-> sess]]

\* a caller between calls; in a call, the call's variables as declared:
\* message "", err nil, schema nil
IdleCall ==
    [ op |-> "idle", args |-> <<>>, pc |-> "idle", reqs |-> <<>>, resps |-> <<>>,
      schema |-> EmptyMap, visited |-> <<>>, ret |-> [message |-> "", err |-> NoErr] ]

\* what the server answers the concurrent callers
ConcurrentReplies(D) ==
    { [err |-> NoErr, data |-> d] : d \in D }
      \cup { [err |-> [kind |-> "dispatcher", detail |-> "connection"], data |-> EmptyStruct] }
ConcurrentSchemas ==
    { [k \in S |-> CustomField] : S \in {{"asset_tag"}, {"asset_tag", "notes"}} }
ConcurrentMaps ==
    { [k \in S |-> StrV("A123")] : S \in {{"asset_tag"}, {"notes"}, {"unknown_key"}} }

\* a caller's step: its own variables change, nothing else does
Step(p, c) ==
    /\ calls' = [calls EXCEPT ![p] = c]
    /\ UNCHANGED <<op, args, reqs, resps, visited, ret, ctrl>>

\* caller p calls an operation
Go(p, name, a, pc) ==
    /\ calls[p].pc = "idle"
    /\ Step(p, [IdleCall EXCEPT !.op = name, !.args = a, !.pc = pc])

\* a schema variable the callers share: the one of the highest-numbered caller
\* that has fetched
SchemaOf_Shared(p) ==
    LET fetched == { q \in Callers : calls[q].pc \in {"validate", "patch", "done"}
                                     /\ calls[q].op = "UpdateVLANCustomFields" }
    IN  calls[CHOOSE q \in fetched : \A o \in fetched : o <= q].schema

\* var schema map[string]phpipam.CustomField: the call's own
SchemaOf(p) == calls[p].schema

\* schema, err = c.GetVLANCustomFieldsSchema(); if err != nil { return }
FetchSchema(p) ==
    /\ calls[p].pc = "fetch"
    /\ \E r1 \in ConcurrentReplies(ConcurrentSchemas) :
          LET c == calls[p]
              f == Client_GetCustomFieldsSchema(c.reqs, "vlans", r1)
          IN  Step(p, [c EXCEPT !.reqs = f.reqs, !.resps = Append(c.resps, r1),
                                !.schema = f.out,
                                !.ret = [message |-> "", err |-> f.err],
                                !.pc = IF f.err # NoErr THEN "done" ELSE "validate"])

\* for k := range in { for l := range schema { ... } return "", fmt.Errorf(...) }
ValidateSchema(p) ==
    /\ calls[p].pc = "validate"
    /\ \E order1 \in Orders(DOMAIN calls[p].args.in) :
          LET c == calls[p]
              v == ValidateKeys(order1, SchemaOf(p), 1)
          IN  Step(p, [c EXCEPT !.visited = v.visited,
                                !.ret = IF v.found THEN c.ret
                                        ELSE [message |-> "",
                                              err |-> ErrCustomFieldNotFound(v.k)],
                                !.pc = IF v.found THEN "patch" ELSE "done"])

\* params := ...; err = c.SendRequest("PATCH", "/vlans/", &params, &message)
Patch(p) ==
    /\ calls[p].pc = "patch"
    /\ \E r2 \in ConcurrentReplies({"ok"}), order2 \in Orders(DOMAIN calls[p].args.in) :
          LET c == calls[p]
              params == BuildParams(c.args.id, c.args.name, c.args.in, order2)
              s == SendRequest(c.reqs, "PATCH", Literal("/vlans/"), params,
                               c.ret.message, r2)
          IN  Step(p, [c EXCEPT !.reqs = s.reqs, !.resps = Append(c.resps, r2),
                                !.ret = [message |-> s.out, err |-> s.err],
                                !.pc = "done"])

\* DeleteVLAN: err = c.SendRequest("DELETE", ..., &struct{}{}, &message)
SendDelete(p) ==
    /\ calls[p].pc = "delete"
    /\ \E r \in ConcurrentReplies({"ok"}) :
          LET c == calls[p]
              s == SendRequest(c.reqs, "DELETE", Sprintf("/vlans/%d/", <<c.args.id>>, <<>>),
                               EmptyStruct, c.ret.message, r)
          IN  Step(p, [c EXCEPT !.reqs = s.reqs, !.resps = Append(c.resps, r),
                                !.ret = [message |-> s.out, err |-> s.err],
                                !.pc = "done"])

\* return: the caller has the result
Finish(p) ==
    /\ calls[p].pc = "done"
    /\ Step(p, IdleCall)

NextConcurrent ==
    \E p \in Callers :
        \/ \E in \in ConcurrentMaps :
              Go(p, "UpdateVLANCustomFields", [id |-> 1, name |-> "v10", in |-> in], "fetch")
        \/ Go(p, "DeleteVLAN", [id |-> 1], "delete")
        \/ FetchSchema(p)
        \/ ValidateSchema(p)
        \/ Patch(p)
        \/ SendDelete(p)
        \/ Finish(p)

\* UpdateVLANCustomFields run from call to return with nothing in between:
\* what it sends, what it is answered and what it returns
UpdateVLANCustomFieldsAlone(id, name, in, r1, r2, order1, order2) ==
    LET f == Client_GetCustomFieldsSchema(<<>>, "vlans", r1)
        v == ValidateKeys(order1, f.out, 1)
        s == SendRequest(f.reqs, "PATCH", Literal("/vlans/"),
                         BuildParams(id, name, in, order2), "", r2)
    IN  IF f.err # NoErr
        THEN [reqs |-> f.reqs, resps |-> <<r1>>, ret |-> [message |-> "", err |-> f.err]]
        ELSE IF ~v.found
        THEN [reqs |-> f.reqs, resps |-> <<r1>>,
              ret |-> [message |-> "", err |-> ErrCustomFieldNotFound(v.k)]]
        ELSE [reqs |-> s.reqs, resps |-> <<r1, r2>>,
              ret |-> [message |-> s.out, err |-> s.err]]

\* DeleteVLAN run alone
DeleteVLANAlone(id, r) ==
    LET s == SendRequest(<<>>, "DELETE", Sprintf("/vlans/%d/", <<id>>, <<>>),
                         EmptyStruct, "", r)
    IN  [reqs |-> s.reqs, resps |-> <<r>>, ret |-> [message |-> s.out, err |-> s.err]]

---------------------------------------------------------------------------
\* the state after construction: no call made
Init ==
    /\ op = "idle"
    /\ args = <<>>
    /\ reqs = <<>>
    /\ resps = <<>>
    /\ visited = <<>>
    /\ ret = [err |-> NoErr]
    /\ ctrl = NewController("sess")
    /\ calls = [p \in Callers |-> IdleCall]

\* the caller has taken the result; nothing of the call remains
Returned ==
    /\ op # "idle"
    /\ op' = "idle"
    /\ args' = <<>>
    /\ reqs' = <<>>
    /\ resps' = <<>>
    /\ visited' = <<>>
    /\ ret' = [err |-> NoErr]
    /\ UNCHANGED <<ctrl, calls>>

Next ==
    \/ sectionsNext
    \/ addressesNext
    \/ subnetsNext
    \/ vlansNext
    \/ l2domainsNext
    \/ conversionsNext
    \/ scalarsNext
    \/ Returned

Spec == Init /\ [][Next]_vars

\* the same controller, called by NumCallers callers at once
SpecConcurrent == Init /\ [][NextConcurrent]_vars

---------------------------------------------------------------------------
(* What the claims speak of.                                               *)

ConversionRuns ==
    { "ToDTO;FromDTO", "FromDTO;ToDTO",
      "JSONIntString.UnmarshalJSON", "JSONIntString.MarshalJSON;UnmarshalJSON",
      "BoolIntString.UnmarshalJSON", "BoolIntString.MarshalJSON;UnmarshalJSON" }

\* a call of a public operation of a controller has returned
OperationReturned == op \notin {"idle"} \cup ConversionRuns

\* the operations that convert a decoded sequence of wire records, and the
\* kind of record each converts
ConvertingSeqOps ==
    [ ListSections |-> "Section", GetSubnetsInSection |-> "Subnet",
      GetAddressesByIP |-> "Address", GetAddressesInSubnet |-> "Address",
      GetSubnetsByCIDR |-> "Subnet", GetSubnetsByCIDRAndSection |-> "Subnet",
      GetVLANsByNumber |-> "VLAN", GetVLANsByNumberAndDomainID |-> "VLAN",
      GetL2DomainByName |-> "L2Domain", GetVlansInl2Domain |-> "VLAN" ]

\* the operations that return a sequence
SeqOps == DOMAIN ConvertingSeqOps \cup {"ListL2Domains"}

IsVLANSchemaFetch(q) ==
    /\ q.method = "GET"
    /\ q.path = Sprintf("/%s/custom_fields/", <<>>, <<"vlans">>)

\* the places in reqs of the requests with a method among M
RequestsWith(M) == { i \in DOMAIN reqs : reqs[i].method \in M }

\* UpdateVLANCustomFields has returned
UVCF == op = "UpdateVLANCustomFields"
\* ... its schema fetch succeeded
SchemaFetched == resps[1].err = NoErr
\* ... and these keys of the update map are not in the fetched schema
AbsentKeys == DOMAIN args.in \ DOMAIN resps[1].data

\* C1: in UpdateVLANCustomFields the schema fetch comes before any mutating
\* request, a mutating request is issued only if every key of the update map
\* is in the fetched schema, and when a key is absent the call returns the error
\* naming an absent key and has issued no mutating request, in whatever order
\* the keys were visited.
C1_ValidateBeforeMutate ==
    UVCF =>
        /\ Len(reqs) >= 1
        /\ IsVLANSchemaFetch(reqs[1])
        /\ \A i \in RequestsWith(MutatingMethods) :
              /\ i > 1
              /\ SchemaFetched
              /\ AbsentKeys = {}
        /\ (SchemaFetched /\ AbsentKeys # {}) =>
              /\ ret.err.kind = ErrCustomFieldNotFound("").kind
              /\ ret.err.detail \in AbsentKeys
              /\ RequestsWith(MutatingMethods) = {}

\* a call whose validation passed one key and then met an absent one
C1_Witness ==
    /\ UVCF
    /\ SchemaFetched
    /\ AbsentKeys # {}
    /\ Len(visited) = 2
    /\ ret.err.detail = visited[2]

\* C2 as claimed: with a key that is not in the schema the call fails with the
\* unknown-custom-field error and has issued no network call at all.
C2_ZeroNetworkCalls ==
    (UVCF /\ SchemaFetched /\ AbsentKeys # {}) =>
        /\ ret.err.kind = ErrCustomFieldNotFound("").kind
        /\ Len(reqs) = 0

\* C2, amended: with a key that is not in the fetched schema the call fails with
\* the unknown-custom-field error and an empty message, and the schema fetch
\* is the only request it has issued.
C2_OnlyTheSchemaFetch ==
    (UVCF /\ SchemaFetched /\ AbsentKeys # {}) =>
        /\ ret.err.kind = ErrCustomFieldNotFound("").kind
        /\ ret.message = ""
        /\ Len(reqs) = 1
        /\ IsVLANSchemaFetch(reqs[1])

\* schema {asset_tag, notes}, update {unknown_key: ...}
C2_Witness ==
    /\ UVCF
    /\ SchemaFetched
    /\ DOMAIN resps[1].data = {"asset_tag", "notes"}
    /\ DOMAIN args.in = {"unknown_key"}
    /\ ret.err = ErrCustomFieldNotFound("unknown_key")

\* the PATCH of a call whose schema fetch succeeded and whose keys are all in
\* the schema: one PATCH to /vlans/, after the fetch, with the update map's
\* keys and id and name, whose outcome the call returns
PatchIssued ==
    /\ Len(reqs) = 2
    /\ RequestsWith(MutatingMethods) = {2}
    /\ reqs[2].method = "PATCH"
    /\ reqs[2].path = Literal("/vlans/")
    /\ DOMAIN reqs[2].body = DOMAIN args.in \cup {"id", "name"}
    /\ ret.err = resps[2].err
    /\ ret.message = (IF resps[2].err = NoErr THEN resps[2].data ELSE "")

\* C3 as claimed: ... and every key of the update map carries the caller's
\* value in the payload.
C3_EveryKeyCarriesCallersValue ==
    (UVCF /\ SchemaFetched /\ AbsentKeys = {}) =>
        /\ PatchIssued
        /\ \A k \in DOMAIN args.in : reqs[2].body[k] = args.in[k]

\* C3, amended: ... every key of the update map other than id and name carries
\* the caller's value, and id and name carry the id and name arguments.
C3_KeysButIdAndNameCarryCallersValue ==
    (UVCF /\ SchemaFetched /\ AbsentKeys = {}) =>
        /\ PatchIssued
        /\ \A k \in DOMAIN args.in \ {"id", "name"} : reqs[2].body[k] = args.in[k]
        /\ reqs[2].body["id"] = IntV(args.id)
        /\ reqs[2].body["name"] = StrV(args.name)

\* an update map with a key "id" that the schema holds too, and another key
C3_Witness ==
    /\ UVCF
    /\ SchemaFetched
    /\ AbsentKeys = {}
    /\ DOMAIN args.in = {"id", "asset_tag"}
    /\ Len(reqs) = 2
    /\ reqs[2].body["id"] # args.in["id"]
    /\ reqs[2].body["asset_tag"] = StrV("A123")

\* C4: when the schema fetch fails the call returns that error with an empty
\* message, has examined no key and has issued nothing but the fetch.
C4_SchemaErrorReturned ==
    (UVCF /\ ~SchemaFetched) =>
        /\ ret.err = resps[1].err
        /\ ret.message = ""
        /\ visited = <<>>
        /\ Len(reqs) = 1
        /\ IsVLANSchemaFetch(reqs[1])

\* a failed fetch in a call with a key to validate
C4_Witness ==
    /\ UVCF
    /\ ~SchemaFetched
    /\ ret.err \in DispatcherErrors
    /\ DOMAIN args.in # {}

\* C5: a domain record converted to its wire record and back into a fresh
\* domain record is the record it was, field for field.
C5_DomainRoundTrip ==
    op = "ToDTO;FromDTO" => ret.out = args.in

\* a subnet with an id and custom fields set, round-tripped
C5_Witness ==
    /\ op = "ToDTO;FromDTO"
    /\ args.kind = "Subnet"
    /\ args.in.ID # 0
    /\ args.in.CustomFields # EmptyMap
    /\ ret.out.ID = args.in.ID

\* C6: a wire record converted to a domain record and back is the wire
\* record it was, field for field.
C6_WireRoundTrip ==
    op = "FromDTO;ToDTO" => ret.out = args.in

\* a section's wire record with a description and a flag set, round-tripped
C6_Witness ==
    /\ op = "FromDTO;ToDTO"
    /\ args.kind = "Section"
    /\ args.in.Description # ""
    /\ args.in.ShowVLAN
    /\ ret.out.Description = args.in.Description

\* C7 as claimed: every operation has issued exactly one request when it
\* returns, whether it succeeded or failed.
C7_ExactlyOneRequest ==
    OperationReturned => Len(reqs) = 1

\* C7, amended: every operation but UpdateVLANCustomFields has issued exactly
\* one request when it returns, whether it succeeded or failed;
\* UpdateVLANCustomFields has issued the schema fetch alone when the fetch or
\* the validation failed, and the fetch and then one PATCH otherwise.
C7_OneRequestButVLANCustomFields ==
    /\ (OperationReturned /\ ~UVCF) => Len(reqs) = 1
    /\ UVCF => Len(reqs) = (IF SchemaFetched /\ AbsentKeys = {} THEN 2 ELSE 1)

\* a plain operation that failed after its one request
C7_Witness ==
    /\ op = "UpdateSubnet"
    /\ ret.err \in DispatcherErrors
    /\ Len(reqs) = 1

\* C8: DeleteSection(id) has issued exactly one request, a DELETE to
\* /sections/{id}/, and nothing else, whether the DELETE succeeded or failed.
C8_DeleteSectionOneDelete ==
    op = "DeleteSection" =>
        /\ Len(reqs) = 1
        /\ reqs[1].method = "DELETE"
        /\ reqs[1].path = Sprintf("/sections/%d/", <<args.id>>, <<>>)
        /\ reqs[1].body = EmptyStruct
        /\ ret.err = resps[1].err

\* a DeleteSection that failed
C8_Witness ==
    /\ op = "DeleteSection"
    /\ args.id = 1
    /\ ret.err \in DispatcherErrors

\* the dispatcher decoded an empty array for a sequence-returning operation
EmptyArrayDecoded ==
    /\ op \in SeqOps
    /\ resps[1].err = NoErr
    /\ resps[1].data.elems = <<>>

\* C9: when the server returns an empty array, a sequence-returning operation
\* returns an empty sequence that is not nil, and no error.
C9_EmptyNotNil ==
    EmptyArrayDecoded =>
        /\ ret.err = NoErr
        /\ ret.out.elems = <<>>
        /\ ~ret.out.isNil

\* C10: a converting operation returns as many records as were decoded, the
\* i-th being the conversion of the i-th decoded wire record.
C10_OrderPreserved ==
    op \in DOMAIN ConvertingSeqOps =>
        LET kind == ConvertingSeqOps[op]
            decoded == IF resps[1].err = NoErr THEN resps[1].data.elems ELSE <<>>
        IN  /\ Len(ret.out.elems) = Len(decoded)
            /\ \A i \in 1..Len(decoded) :
                  ret.out.elems[i] = FromDTO(kind, ZeroDomain(kind), decoded[i])

\* two different subnets returned in the order they were decoded
C10_Witness ==
    /\ op = "GetSubnetsByCIDR"
    /\ Len(ret.out.elems) = 2
    /\ ret.out.elems[1].ID = 2
    /\ ret.out.elems[2].ID = 1
    /\ int(resps[1].data.elems[1].ID) = 2

\* the places in resps where the dispatcher answered with an error
FailedRequests == { i \in DOMAIN resps : resps[i].err # NoErr }

\* C11: when a request of an operation fails, the operation returns the
\* dispatcher's error as it is and that request is the last it has issued.
C11_DispatcherErrorReturned ==
    OperationReturned =>
        /\ Len(reqs) = Len(resps)
        /\ \A i \in FailedRequests :
              /\ ret.err = resps[i].err
              /\ i = Len(reqs)

\* a search whose one request failed
C11_Witness ==
    /\ op = "GetAddressesByIP"
    /\ FailedRequests = {1}
    /\ ret.err \in DispatcherErrors
    /\ Len(reqs) = 1

\* a slice, as opposed to a record of a resource
IsSlice(x) == DOMAIN x = DOMAIN NilSlice(DomainType(""))

\* the get-by-name and get-by-search-key operations
SearchOps ==
    { "GetSectionByName", "GetL2DomainByName", "GetVLANsByNumber",
      "GetVLANsByNumberAndDomainID", "GetAddressesByIP", "GetSubnetsByCIDR",
      "GetSubnetsByCIDRAndSection" }

\* one GET was issued and it succeeded
OneGetSucceeded ==
    /\ Len(reqs) = 1
    /\ reqs[1].method = "GET"
    /\ resps[1].err = NoErr

\* a sequence of wire records was decoded and a sequence of domain records,
\* their conversions, is returned
SequenceReturned(kind) ==
    /\ IsSlice(resps[1].data)
    /\ IsSlice(ret.out)
    /\ Len(ret.out.elems) = Len(resps[1].data.elems)
    /\ \A i \in DOMAIN ret.out.elems :
          ret.out.elems[i] = FromDTO(kind, ZeroDomain(kind), resps[1].data.elems[i])

\* C12 as claimed: every get-by-name and get-by-search-key operation issues
\* one GET, decodes a sequence of wire records and returns a sequence of
\* domain records.
C12_EverySearchReturnsSequence ==
    (op \in SearchOps /\ resps[1].err = NoErr) =>
        /\ OneGetSucceeded
        /\ IsSlice(resps[1].data)
        /\ IsSlice(ret.out)

\* C12, amended: every get-by-name and get-by-search-key operation but
\* GetSectionByName issues one GET, decodes a sequence of wire records and
\* returns the sequence of their conversions; GetSectionByName issues one GET
\* to /sections/{name}/, decodes one wire record and returns its conversion,
\* a single record.
C12_SearchReturnsSequenceButSectionByName ==
    /\ (op \in SearchOps \ {"GetSectionByName"} /\ resps[1].err = NoErr) =>
          /\ OneGetSucceeded
          /\ SequenceReturned(ConvertingSeqOps[op])
    /\ (op = "GetSectionByName" /\ resps[1].err = NoErr) =>
          /\ OneGetSucceeded
          /\ reqs[1].path = Sprintf("/sections/%s/", <<>>, <<args.name>>)
          /\ ~IsSlice(ret.out)
          /\ ret.out = FromDTO("Section", ZeroDomain("Section"), resps[1].data)

\* a get by name that returned the two records the server matched
C12_Witness ==
    /\ op = "GetL2DomainByName"
    /\ resps[1].err = NoErr
    /\ Len(ret.out.elems) = 2
    /\ ret.out.elems[1].ID # ret.out.elems[2].ID

\* C15: an integer n >= 0 encoded as a Normalized Integer decodes to n, and
\* the bare number form of n decodes to the same value as the quoted form.
C15_IntegerRoundTrip ==
    op = "JSONIntString.MarshalJSON;UnmarshalJSON" =>
        /\ ret.err = NoErr
        /\ ret.out = args.in
        /\ ret.errFromNumber = NoErr
        /\ ret.fromNumber = ret.out

\* a number of two digits, encoded as the quoted string and decoded
C15_Witness ==
    /\ op = "JSONIntString.MarshalJSON;UnmarshalJSON"
    /\ args.in = 12
    /\ ret.token = StringToken(<<"1", "2">>)
    /\ ret.out = 12

\* a Normalized Integer was decoded from a token that is neither a number nor
\* a string holding an integer literal
NonNumericDecoded ==
    /\ op = "JSONIntString.UnmarshalJSON"
    /\ args.in.form # "absent"
    /\ ~(args.in.form \in {"number", "string"} /\ IsIntegerLiteral(args.in.text))

\* null or the empty string
IsNullOrEmpty(tok) == tok = NullToken \/ tok = StringToken(<<>>)

\* an operation returns the malformed-scalar error of a response's decode,
\* having issued nothing after the request it belongs to
MalformedScalarAborts ==
    (OperationReturned /\ \E i \in DOMAIN resps : resps[i].err = MalformedScalar) =>
        /\ ret.err = MalformedScalar
        /\ resps[Len(resps)].err = MalformedScalar
        /\ Len(reqs) = Len(resps)

\* C16 as claimed: decoding a token that is neither a number nor a numeric
\* string yields the malformed-scalar error, never a zero without an error.
C16_NonNumericIsMalformed ==
    /\ NonNumericDecoded => ret.err = MalformedScalar
    /\ MalformedScalarAborts

\* C16, amended: decoding a token that is neither a number, a numeric string,
\* null nor the empty string yields the malformed-scalar error; null and the
\* empty string decode to zero without an error; an operation whose response
\* fails to decode returns the error.
C16_NonNumericButNullOrEmptyIsMalformed ==
    /\ (NonNumericDecoded /\ ~IsNullOrEmpty(args.in)) => ret.err = MalformedScalar
    /\ (NonNumericDecoded /\ IsNullOrEmpty(args.in)) => (ret.err = NoErr /\ ret.out = 0)
    /\ MalformedScalarAborts

\* a string of letters, decoded
C16_Witness ==
    /\ op = "JSONIntString.UnmarshalJSON"
    /\ args.in = StringToken(<<"a", "b", "c">>)
    /\ ret.err = MalformedScalar

\* C17: a boolean b encoded as a Normalized Boolean decodes to b, the native
\* form of b decodes to the same value, and the encoding is the string "0"
\* or "1".
C17_BooleanRoundTrip ==
    op = "BoolIntString.MarshalJSON;UnmarshalJSON" =>
        /\ ret.err = NoErr
        /\ ret.out = args.in
        /\ ret.errFromNative = NoErr
        /\ ret.fromNative = ret.out
        /\ ret.token = StringToken(IF args.in THEN <<"1">> ELSE <<"0">>)

\* true, encoded as "1" and decoded
C17_Witness ==
    /\ op = "BoolIntString.MarshalJSON;UnmarshalJSON"
    /\ args.in
    /\ ret.token = StringToken(<<"1">>)
    /\ ret.out

\* the create and update operations that send a record, and its kind
CreateUpdateOps ==
    [ CreateSection |-> "Section", UpdateSection |-> "Section",
      CreateAddress |-> "Address", CreateFirstFreeAddress |-> "Address",
      UpdateAddress |-> "Address", CreateSubnet |-> "Subnet",
      CreateFirstFreeSubnet |-> "Subnet", UpdateSubnet |-> "Subnet",
      CreateVLAN |-> "VLAN", UpdateVLAN |-> "VLAN",
      CreateL2Domain |-> "L2Domain", UpdateL2Domain |-> "L2Domain" ]

\* C13: the JSON object a create or update operation sends has a member for a
\* field if and only if the field of the record passed is not its zero value
\* (zero, false, the empty string, a map of no key), and no member is null.
C13_DefaultFieldsOmitted ==
    op \in DOMAIN CreateUpdateOps =>
        LET kind == CreateUpdateOps[op]
            T == FieldsOf(kind)
            sent == reqs[1].json
        IN  /\ \A f \in DOMAIN T :
                  (TagsOf(kind)[f].name \in DOMAIN sent) <=> (args.in[f] # ZeroOf(T[f]))
            /\ \A w \in DOMAIN sent : sent[w].form # "null"

\* an update of a VLAN with a name and no id: only the name is sent
C13_Witness ==
    /\ op = "UpdateVLAN"
    /\ args.in.ID = 0
    /\ args.in.Name # ""
    /\ DOMAIN reqs[1].json = {"name"}

\* what caller p's finished call sent, was answered and returned
Outcome(p) == [reqs |-> calls[p].reqs, resps |-> calls[p].resps, ret |-> calls[p].ret]

\* caller p's finished call did what the same call does alone against the
\* same replies
SameAsAlone(p) ==
    LET c == calls[p]
    IN  IF c.op = "UpdateVLANCustomFields"
        THEN \E r2 \in ConcurrentReplies({"ok"}) :
                /\ Len(c.resps) = 2 => r2 = c.resps[2]
                /\ \E order1 \in Orders(DOMAIN c.args.in), order2 \in Orders(DOMAIN c.args.in) :
                      Outcome(p) = UpdateVLANCustomFieldsAlone(c.args.id, c.args.name, c.args.in,
                                                               c.resps[1], r2, order1, order2)
        ELSE Outcome(p) = DeleteVLANAlone(c.args.id, c.resps[1])

\* C14: however the steps of concurrent calls interleave, a call sends the
\* requests and returns the result it does when run alone against the same
\* replies, and the controller and the session it holds stay as constructed.
C14_CallsIndependent ==
    /\ \A p \in Callers : calls[p].pc = "done" => SameAsAlone(p)
    /\ ctrl = NewController("sess")

\* caller 1 has patched while caller 2, in the middle of its own update,
\* holds another schema
C14_Witness ==
    /\ calls[1].pc = "done"
    /\ calls[1].op = "UpdateVLANCustomFields"
    /\ Len(calls[1].reqs) = 2
    /\ calls[2].op = "UpdateVLANCustomFields"
    /\ calls[2].pc = "validate"
    /\ calls[2].schema # calls[1].schema

\* the read operations that return one record, and its kind
SingleReadOps ==
    [ GetSectionByID |-> "Section", GetSectionByName |-> "Section",
      GetAddressByID |-> "Address", GetSubnetByID |-> "Subnet",
      GetVLANByID |-> "VLAN", GetL2DomainByID |-> "L2Domain" ]

\* the kind of the records a sequence-returning operation returns
SeqOpKind == IF op = "ListL2Domains" THEN "L2Domain" ELSE ConvertingSeqOps[op]

\* what the dispatcher left in the destination of the first request
Decoded == IF resps[1].err = NoErr THEN resps[1].data ELSE reqs[1].dst

\* C18: a read operation has the dispatcher decode into a wire record, or a
\* sequence of wire records, and returns the conversion of what was decoded;
\* none decodes into domain records.
C18_DecodedIntoWireRecords ==
    /\ op \in DOMAIN SingleReadOps =>
          /\ reqs[1].dst = ZeroDTO(SingleReadOps[op])
          /\ ret.out = FromDTO(SingleReadOps[op], ZeroDomain(SingleReadOps[op]), Decoded)
    /\ op \in SeqOps =>
          /\ reqs[1].dst.of = DTOType(SeqOpKind)
          /\ Len(ret.out.elems) = Len(Decoded.elems)
          /\ \A i \in DOMAIN ret.out.elems :
                ret.out.elems[i] = FromDTO(SeqOpKind, ZeroDomain(SeqOpKind), Decoded.elems[i])

\* C19: in the PATCH of UpdateVLANCustomFields the values under id and name
\* are the id and name arguments, in the payload and in the JSON sent,
\* whatever the update map holds under those keys.
C19_IdAndNameAreTheArguments ==
    (UVCF /\ Len(reqs) = 2) =>
        /\ reqs[2].body["id"] = IntV(args.id)
        /\ reqs[2].body["name"] = StrV(args.name)
        /\ reqs[2].json["id"] = NumberToken(Itoa(args.id))
        /\ reqs[2].json["name"] = StringToken(<<args.name>>)

\* an update map with a name of its own, validated and patched
C19_Witness ==
    /\ UVCF
    /\ Len(reqs) = 2
    /\ "name" \in DOMAIN args.in
    /\ "name" \in DOMAIN resps[1].data
    /\ args.in["name"] # StrV(args.name)
    /\ reqs[2].body["name"] = StrV(args.name)

\* C20: UpdateVLANCustomFields leaves the caller's update map as it was passed,
\* whether the schema fetch failed, the validation failed, or the PATCH was
\* sent and succeeded or failed.
C20_CallersMapUnchanged ==
    UVCF => ret.in = args.in

\* a PATCH sent with id and name added, and failed; the caller's map has
\* neither
C20_Witness ==
    /\ UVCF
    /\ Len(reqs) = 2
    /\ resps[2].err \in DispatcherErrors
    /\ DOMAIN args.in = {"asset_tag"}
    /\ DOMAIN reqs[2].body = {"asset_tag", "id", "name"}
    /\ DOMAIN ret.in = {"asset_tag"}

\* the get-by-identifier operations, and the kind of record each returns
GetByIDOps ==
    [ GetSectionByID |-> "Section", GetSubnetByID |-> "Subnet",
      GetVLANByID |-> "VLAN", GetL2DomainByID |-> "L2Domain",
      GetAddressByID |-> "Address" ]

\* C21: a get-by-identifier operation whose request failed, the destination
\* left as declared, returns the dispatcher's error and a record whose every
\* field is zero; the record returned is always the conversion of what the
\* destination holds, and the conversion leaves the error as it is.
C21_ZeroRecordAndError ==
    op \in DOMAIN GetByIDOps =>
        LET kind == GetByIDOps[op]
        IN  /\ Len(reqs) = 1
            /\ reqs[1].path.ints = <<args.id>>
            /\ ret.out = FromDTO(kind, ZeroDomain(kind), Decoded)
            /\ ret.err = resps[1].err
            /\ resps[1].err # NoErr =>
                  /\ reqs[1].dst = ZeroDTO(kind)
                  /\ ret.out = ZeroRecord(FieldsOf(kind))
                  /\ ret.err \in DispatcherErrors

\* an address looked up by its identifier, the request failed
C21_Witness ==
    /\ op = "GetAddressByID"
    /\ args.id = 2
    /\ resps[1].err \in DispatcherErrors
    /\ ret.err = resps[1].err
    /\ ret.out = ZeroRecord(AddressFields)

============================================================================
